---- MODULE Spec2Model ----
(***************************************************************************)
(* cleanheap: removal of weak-retainer edges from a V8 heap snapshot.      *)
(* Model of src/src/index.ts (class Snapshot, cleanupRetainers,            *)
(* getNodeName, getField, iterateBySlice, main) and of the field-by-field  *)
(* writer described in the design document.                                *)
(*                                                                         *)
(* JavaScript arrays are 0-based; they are modelled as sequences and read  *)
(* and written through At / ArrSet, which shift the index by one and give  *)
(* JavaScript's answers for indexes outside the array.                     *)
(***************************************************************************)
EXTENDS Integers, Sequences, FiniteSets, TLC

\* ------------------------------------------------------------------ bounds
MaxNodes == 2
MaxOwned == 2

\* ------------------------------------------------------- JavaScript values
\* Non-numeric values a number slot can hold, kept apart from every integer
\* the snapshot can contain.
UNDEF == -1001
NaN == -1002
NULL == -1003

IsNum(v) == v \notin {UNDEF, NaN, NULL}

\* ToNumber(undefined) is NaN, ToNumber(null) is 0.
ToNumber(v) == IF v = NULL THEN 0 ELSE IF v = UNDEF THEN NaN ELSE v

JsAdd(a, b) ==
    IF ToNumber(a) = NaN \/ ToNumber(b) = NaN THEN NaN
    ELSE ToNumber(a) + ToNumber(b)

\* a < b is false as soon as one side is NaN.
JsLess(a, b) ==
    /\ ToNumber(a) # NaN
    /\ ToNumber(b) # NaN
    /\ ToNumber(a) < ToNumber(b)

\* arr[idx]: undefined outside the array (also for a NaN or undefined index).
At(arr, idx) == IF idx \in 0..(Len(arr) - 1) THEN arr[idx + 1] ELSE UNDEF

\* arr[idx] = v: an index past the end lengthens the array, leaving holes;
\* a negative index sets a property and no element.
ArrSet(arr, idx, v) ==
    IF idx < 0 THEN arr
    ELSE IF idx < Len(arr) THEN [arr EXCEPT ![idx + 1] = v]
    ELSE arr \o [k \in 1..(idx - Len(arr)) |-> UNDEF] \o <<v>>

\* --------------------------------------------------------------- schemas
MetaKeys == {"node_fields", "node_types", "edge_fields", "edge_types"}
NoEnum == [kind |-> "undefined", names |-> <<>>]
NodeTypeNames == <<"hidden", "object", "native">>
EdgeTypeNames == <<"context", "element", "property", "weak">>
Enum(names) == [kind |-> "enum", names |-> names]
Scalar(name) == [kind |-> "scalar", names |-> <<name>>]

TypesFor(fields, enum) ==
    [k \in 1..Len(fields) |->
        IF fields[k] = "type" THEN Enum(enum)
        ELSE IF fields[k] \in {"name", "name_or_index"} THEN Scalar("string")
        ELSE Scalar("number")]

NF3 == <<"type", "name", "edge_count">>
NF4 == <<"type", "name", "id", "edge_count">>
NFNoType == <<"name", "edge_count">>
NFNoName == <<"type", "edge_count">>
EF2 == <<"type", "to_node">>
EF3 == <<"type", "name_or_index", "to_node">>

\* has: the keys the meta object of the file carries.
Meta(nf, ef) ==
    [has |-> MetaKeys,
     node_fields |-> nf, node_types |-> TypesFor(nf, NodeTypeNames),
     edge_fields |-> ef, edge_types |-> TypesFor(ef, EdgeTypeNames)]

GoodSchemas == {Meta(nf, ef) : nf \in {NF3, NF4}, ef \in {EF2, EF3}}

MalformedSchemas ==
    {[Meta(NF3, EF3) EXCEPT !.has = MetaKeys \ {k}] : k \in MetaKeys}
    \cup {Meta(NFNoType, EF3), Meta(NFNoName, EF3)}

Schemas == GoodSchemas \cup MalformedSchemas

\* The layout the producer of the file used for its records.
LayoutNodeFields(m) == m.node_fields
LayoutEdgeStride(m) == Len(m.edge_fields)

\* ------------------------------------------------------------ input files
Strings == <<"Foo", "WeakMap", "WeakRef">>
NodeTypeChoices == {0, 1}
NodeNameChoices == {0, 1}
NodeSpecs == [type : NodeTypeChoices, name : NodeNameChoices, ec : 0..MaxOwned]

RECURSIVE SumEc(_)
SumEc(ns) == IF ns = <<>> THEN 0 ELSE Head(ns).ec + SumEc(Tail(ns))

FieldValue(ns, k, f) ==
    IF f = "type" THEN ns[k].type
    ELSE IF f = "name" THEN ns[k].name
    ELSE IF f = "edge_count" THEN ns[k].ec
    ELSE 2 * k + 1

BuildNodes(ns, nf) ==
    [p \in 1..(Len(ns) * Len(nf)) |->
        FieldValue(ns, ((p - 1) \div Len(nf)) + 1, nf[((p - 1) % Len(nf)) + 1])]

BuildEdges(ns, stride) == [p \in 1..(SumEc(ns) * stride) |-> p - 1]

TopLevelKeyOrders ==
    {<<"snapshot", "nodes", "edges", "strings">>,
     <<"snapshot", "nodes", "edges", "samples", "locations", "strings">>}

\* ------------------------------------------------------------------ state
VARIABLES
    meta,           \* data.snapshot.meta
    edge_count,     \* data.snapshot.edge_count
    nodes,          \* data.nodes
    edges,          \* data.edges
    strings,        \* data.strings
    keys,           \* the top-level keys of data, in order
    wrapper,        \* the Snapshot object's nodeOffsets, edgeOffsets, nodeTypeEnum, edgeTypeEnum
    pc,             \* where main is
    pass,           \* which call of clean() this is
    loc,            \* the locals of clean(): nextEdgeIndex, totalObjects, weakRetainers, ...
    isDirty,        \* what clean() returned
    input,          \* the snapshot as loaded
    walk,           \* per node visited: the indexes the walker used
    tombs,          \* the indexes of edges that were assigned null
    first,          \* the snapshot as the first clean() left it
    out,            \* the chunks written to the output file
    ser             \* the field-by-field writer: position, held text, released fields

data == <<meta, edge_count, nodes, edges, strings, keys>>
history == <<input, walk, tombs, first>>
vars == <<meta, edge_count, nodes, edges, strings, keys, wrapper, pc, pass, loc,
          isDirty, input, walk, tombs, first, out, ser>>

NoWrapper ==
    [nodeOffsets |-> <<>>, edgeOffsets |-> <<>>,
     nodeTypeEnum |-> NoEnum, edgeTypeEnum |-> NoEnum]

NoLocals ==
    [nextEdgeIndex |-> 0, totalObjects |-> 0, weakRetainers |-> 0,
     fieldSliceSize |-> 0, edgeCount |-> 0, edgeFieldsCount |-> 0,
     i |-> 0, end |-> 0]

NoSerializer == [at |-> 0, content |-> <<>>, released |-> {}, closed |-> 0, flushed |-> 0]

Snap == [nodes |-> nodes, edges |-> edges, strings |-> strings, edge_count |-> edge_count]

Init ==
    /\ meta \in Schemas
    /\ \E n \in 0..MaxNodes : \E ns \in [1..n -> NodeSpecs] :
        /\ nodes = BuildNodes(ns, LayoutNodeFields(meta))
        /\ edges = BuildEdges(ns, LayoutEdgeStride(meta))
        /\ edge_count = SumEc(ns)
    /\ strings = Strings
    /\ keys \in TopLevelKeyOrders
    /\ wrapper = NoWrapper
    /\ pc = "new"
    /\ pass = 1
    /\ loc = NoLocals
    /\ isDirty = FALSE
    /\ input = Snap
    /\ walk = <<>>
    /\ tombs = {}
    /\ first = Snap
    /\ out = <<>>
    /\ ser = NoSerializer

\* ------------------------------------------------------- Schema Resolver
\* Object.fromEntries(fields.map((field, offset) => [field, offset])): the last
\* entry of a repeated name wins.
fieldOffsets(fields) ==
    [f \in {fields[k] : k \in DOMAIN fields} |->
        (CHOOSE k \in DOMAIN fields :
            fields[k] = f /\ \A k2 \in DOMAIN fields : fields[k2] = f => k2 <= k) - 1]

Offset_DefaultZero(offsets, name) == IF name \in DOMAIN offsets THEN offsets[name] ELSE 0

\* offsets.name: undefined when the schema has no such field.
Offset(offsets, name) == IF name \in DOMAIN offsets THEN offsets[name] ELSE UNDEF

\* types[index]: undefined outside the table.
TypeTableAt(types, index) ==
    IF index \in 0..(Len(types) - 1) THEN types[index + 1] ELSE NoEnum

\* new Snapshot(data) raises a TypeError when it calls .map on, or indexes, a
\* member of meta that is not there.
ConstructorThrows(m) == m.has # MetaKeys

NewSnapshot(m) ==
    LET no == fieldOffsets(m.node_fields)
        eo == fieldOffsets(m.edge_fields)
    IN [nodeOffsets |-> no, edgeOffsets |-> eo,
        nodeTypeEnum |-> TypeTableAt(m.node_types, Offset(no, "type")),
        edgeTypeEnum |-> TypeTableAt(m.edge_types, Offset(eo, "type"))]

Construct ==
    /\ pc = "new"
    /\ IF ConstructorThrows(meta)
       THEN /\ pc' = "threw"
            /\ UNCHANGED wrapper
       ELSE /\ pc' = "constructed"
            /\ wrapper' = NewSnapshot(meta)
    /\ UNCHANGED <<data, pass, loc, isDirty, history, out, ser>>

\* ---------------------------------------------------- Retainer Classifier
WeakRetainerNames == {"WeakMap", "WeakSet", "WeakRef", "DebugWeakCache", "DebugWeakMap"}

NullName == "<null>"
UndefinedName == "<undefined>"

StringAt(strs, index) ==
    IF index \in 0..(Len(strs) - 1) THEN strs[index + 1] ELSE UndefinedName

\* wrapper.nodeTypeEnum[...] raises a TypeError when nodeTypeEnum is undefined.
GetNodeNameThrows(w) == w.nodeTypeEnum.kind = "undefined"

NodeTypeOf(w, ns, nodeIndex) ==
    IF w.nodeTypeEnum.kind = "enum"
    THEN StringAt(w.nodeTypeEnum.names, At(ns, JsAdd(nodeIndex, Offset(w.nodeOffsets, "type"))))
    ELSE UndefinedName

getNodeName_NoTypeCheck(w, ns, strs, nodeIndex) ==
    StringAt(strs, At(ns, JsAdd(nodeIndex, Offset(w.nodeOffsets, "name"))))

getNodeName(w, ns, strs, nodeIndex) ==
    IF NodeTypeOf(w, ns, nodeIndex) # "object" THEN NullName
    ELSE StringAt(strs, At(ns, JsAdd(nodeIndex, Offset(w.nodeOffsets, "name"))))

\* !nodeName || !WeakRetainerNames.has(nodeName) is false
IsWeakRetainerName(name) ==
    /\ name \notin {NullName, UndefinedName, ""}
    /\ name \in WeakRetainerNames

\* ----------------------------------------------------------- Graph Walker
getField(ns, offset, index) == At(ns, JsAdd(offset, index))

\* ------------------------------------------------------------ Edge Pruner
RECURSIVE NullRange(_, _, _)
NullRange(es, from, to) ==
    IF from >= to THEN es ELSE NullRange(ArrSet(es, from, NULL), from + 1, to)

\* The body of iterateBySlice(start, nextEdgeIndex, edgeFieldsCount, ...) in
\* cleanupRetainers, from position at on. st holds nodes, edges, edge_count and
\* the indexes of edges assigned null.
RECURSIVE CleanupLoop(_, _, _, _, _)
CleanupLoop(st, at, nextEdgeIndex, edgeFieldsCount, countIndex) ==
    IF ~JsLess(at, nextEdgeIndex) THEN st
    ELSE CleanupLoop(
            [nodes |-> ArrSet(st.nodes, countIndex, JsAdd(At(st.nodes, countIndex), -1)),
             edges |-> NullRange(st.edges, at, at + edgeFieldsCount),
             edge_count |-> JsAdd(st.edge_count, -1),
             tombs |-> st.tombs \cup (at..(at + edgeFieldsCount - 1))],
            at + edgeFieldsCount, nextEdgeIndex, edgeFieldsCount, countIndex)

cleanupRetainers(st, edgeCount, startOffset, start, nextEdgeIndex, edgeFieldsCount) ==
    CleanupLoop(st, start, nextEdgeIndex, edgeFieldsCount, JsAdd(startOffset, edgeCount))

\* ------------------------------------------------------------------ clean
CleanBegin ==
    /\ pc = "constructed"
    /\ pc' = "walk"
    /\ loc' = [nextEdgeIndex |-> 0, totalObjects |-> 0, weakRetainers |-> 0,
               fieldSliceSize |-> Len(meta.node_fields),
               edgeCount |-> edge_count,
               edgeFieldsCount |-> Len(meta.edge_fields),
               i |-> 0, end |-> Len(nodes)]
    /\ UNCHANGED <<data, wrapper, pass, isDirty, history, out, ser>>

\* One call of the per-node callback of clean(), cleanupRetainers included.
WalkNode ==
    /\ pc = "walk"
    /\ loc.i < loc.end
    /\ LET startOffset == loc.i
           start == loc.nextEdgeIndex
           ownedEdgeCount == getField(nodes, startOffset, loc.edgeCount)
           next == JsAdd(JsAdd(loc.nextEdgeIndex, ownedEdgeCount), loc.edgeFieldsCount)
           nodeName == getNodeName(wrapper, nodes, strings, startOffset)
           retainer == IsWeakRetainerName(nodeName)
           st == [nodes |-> nodes, edges |-> edges, edge_count |-> edge_count,
                  tombs |-> tombs]
           pruned == IF retainer
                     THEN cleanupRetainers(st, loc.edgeCount, startOffset, start, next,
                                           loc.edgeFieldsCount)
                     ELSE st
       IN IF GetNodeNameThrows(wrapper)
          THEN /\ pc' = "threw"
               /\ loc' = [loc EXCEPT !.nextEdgeIndex = next, !.totalObjects = @ + 1]
               /\ UNCHANGED <<nodes, edges, edge_count, tombs, walk>>
          ELSE /\ pc' = "walk"
               /\ loc' = [loc EXCEPT !.nextEdgeIndex = next,
                                     !.totalObjects = @ + 1,
                                     !.weakRetainers = IF retainer THEN @ + 1 ELSE @,
                                     !.i = @ + loc.fieldSliceSize]
               /\ nodes' = pruned.nodes
               /\ edges' = pruned.edges
               /\ edge_count' = pruned.edge_count
               /\ tombs' = pruned.tombs
               /\ walk' = Append(walk,
                            [startOffset |-> startOffset,
                             countIndex |-> JsAdd(startOffset, loc.edgeCount),
                             ownedEdgeCount |-> ownedEdgeCount,
                             start |-> start, next |-> next, retainer |-> retainer])
    /\ UNCHANGED <<meta, strings, keys, wrapper, pass, isDirty, input, first, out, ser>>

\* ------------------------------------------------------------- Compactor
\* edges.filter(v => v !== null): filter also skips the holes of the array.
CompactEdges(es) == SelectSeq(es, LAMBDA v : v # NULL /\ v # UNDEF)

Compact ==
    /\ pc = "walk"
    /\ ~(loc.i < loc.end)
    /\ edges' = CompactEdges(edges)
    /\ isDirty' = (loc.weakRetainers > 0)
    /\ pc' = "cleaned"
    /\ first' = IF pass = 1 THEN [Snap EXCEPT !.edges = CompactEdges(edges)] ELSE first
    /\ UNCHANGED <<meta, edge_count, nodes, strings, keys, wrapper, pass, loc,
                   input, walk, tombs, out, ser>>

\* ------------------------------------------------------------- JSON text
\* JSON.stringify writes null for NaN, for undefined and for a hole of an array.
JsonNumber(v) == IF IsNum(v) THEN v ELSE NULL

JsonNumbers(arr) == [k \in DOMAIN arr |-> JsonNumber(arr[k])]

Tok(t, k) == [t |-> t, k |-> k, of |-> "", numbers |-> <<>>]
LBrace == Tok("{", "")
RBrace == Tok("}", "")
Comma == Tok(",", "")
Colon == Tok(":", "")
KeyTok(k) == Tok("key", k)

\* JSON.stringify of one top-level member of data; a member that was set to
\* null serializes as null.
Stringified(k, released) ==
    IF k \in released THEN [t |-> "null", k |-> "", of |-> k, numbers |-> <<>>]
    ELSE [t |-> "value", k |-> "", of |-> k,
          numbers |-> IF k = "nodes" THEN JsonNumbers(nodes)
                      ELSE IF k = "edges" THEN JsonNumbers(edges)
                      ELSE IF k = "snapshot" THEN <<JsonNumber(edge_count)>>
                      ELSE <<>>]

RECURSIVE Members(_, _)
Members(ks, released) ==
    IF ks = <<>> THEN <<>>
    ELSE <<KeyTok(Head(ks)), Colon, Stringified(Head(ks), released)>>
         \o (IF Len(ks) > 1 THEN <<Comma>> ELSE <<>>)
         \o Members(Tail(ks), released)

\* JSON.stringify(snapshot.data): the members in the order of the object's keys.
StringifyData == <<LBrace>> \o Members(keys, {}) \o <<RBrace>>

\* ------------------------------------------------------------------- main
SkipWrite ==
    /\ pc = "cleaned"
    /\ pass = 1
    /\ ~isDirty
    /\ pc' = "done"
    /\ UNCHANGED <<data, wrapper, pass, loc, isDirty, history, out, ser>>

\* await Bun.write(writeHandler, JSON.stringify(snapshot.data))
WriteWhole ==
    /\ pc = "cleaned"
    /\ pass = 1
    /\ isDirty
    /\ out' = <<StringifyData>>
    /\ pc' = "done"
    /\ UNCHANGED <<data, wrapper, pass, loc, isDirty, history, ser>>

\* ------------------------------------------------------ Bounded Serializer
\* The order the fields are written in: the header, nodes, edges, strings, then
\* every other top-level key in the order of the input.
CoreKeys == <<"snapshot", "nodes", "edges", "strings">>
RemainingKeys == SelectSeq(keys, LAMBDA k : \A c \in DOMAIN CoreKeys : CoreKeys[c] # k)
WriteOrder == CoreKeys \o RemainingKeys

\* The name the header is written under.
HeaderKey == "meta"

Chunk_TrailingComma(at, content) ==
    IF at = 1 THEN <<LBrace, KeyTok(HeaderKey), Colon>> \o content
                   \o <<Comma, KeyTok(WriteOrder[2]), Colon>>
    ELSE IF at <= Len(CoreKeys) THEN content \o <<Comma>>
    ELSE <<KeyTok(WriteOrder[at]), Colon>> \o content \o <<Comma>>

\* The text written for the field at position at, given its serialized content.
Chunk(at, content) ==
    IF at = 1 THEN <<LBrace, KeyTok(HeaderKey), Colon>> \o content
                   \o <<Comma, KeyTok(WriteOrder[2]), Colon>>
    ELSE IF at < Len(CoreKeys) THEN content \o <<Comma, KeyTok(WriteOrder[at + 1]), Colon>>
    ELSE IF at = Len(CoreKeys) THEN content
    ELSE <<Comma, KeyTok(WriteOrder[at]), Colon>> \o content

BeginWriteOutput ==
    /\ pc = "cleaned"
    /\ pass = 1
    /\ isDirty
    /\ pc' = "serialize"
    /\ ser' = [NoSerializer EXCEPT !.at = 1]
    /\ UNCHANGED <<data, wrapper, pass, loc, isDirty, history, out>>

SerializeField_KeepReference ==
    /\ pc = "serialize"
    /\ ser.at <= Len(WriteOrder)
    /\ ser' = [ser EXCEPT !.content = <<Stringified(WriteOrder[ser.at], ser.released)>>]
    /\ pc' = "write"
    /\ UNCHANGED <<data, wrapper, pass, loc, isDirty, history, out>>

\* content = JSON.stringify(data[key]); data[key] = null
SerializeField ==
    /\ pc = "serialize"
    /\ ser.at <= Len(WriteOrder)
    /\ ser' = [ser EXCEPT !.content = <<Stringified(WriteOrder[ser.at], ser.released)>>,
                          !.released = @ \cup {WriteOrder[ser.at]}]
    /\ pc' = "write"
    /\ UNCHANGED <<data, wrapper, pass, loc, isDirty, history, out>>

\* writer.write(...); writer.flush(); the content is dropped and a collection forced
WriteField ==
    /\ pc = "write"
    /\ out' = Append(out, Chunk(ser.at, ser.content))
    /\ ser' = [ser EXCEPT !.content = <<>>, !.flushed = @ + 1, !.at = @ + 1]
    /\ pc' = "serialize"
    /\ UNCHANGED <<data, wrapper, pass, loc, isDirty, history>>

\* the closing brace, then writer.end()
CloseWriter ==
    /\ pc = "serialize"
    /\ ser.at > Len(WriteOrder)
    /\ out' = Append(out, <<RBrace>>)
    /\ ser' = [ser EXCEPT !.closed = @ + 1]
    /\ pc' = "done"
    /\ UNCHANGED <<data, wrapper, pass, loc, isDirty, history>>

\* --------------------------------------------------- a second call of clean
\* new Snapshot(data).clean() once more on the snapshot the first call left.
CleanAgain ==
    /\ pc = "cleaned"
    /\ pass = 1
    /\ pass' = 2
    /\ pc' = "new"
    /\ wrapper' = NoWrapper
    /\ loc' = NoLocals
    /\ walk' = <<>>
    /\ tombs' = {}
    /\ UNCHANGED <<data, isDirty, input, first, out, ser>>

\* ---------------------------------------------------------- specifications
Next ==
    \/ Construct
    \/ CleanBegin
    \/ WalkNode
    \/ Compact
    \/ SkipWrite
    \/ WriteWhole
    \/ BeginWriteOutput
    \/ SerializeField
    \/ WriteField
    \/ CloseWriter

Spec == Init /\ [][Next]_vars

NextTwice == Construct \/ CleanBegin \/ WalkNode \/ Compact \/ CleanAgain

SpecTwice == Init /\ [][NextTwice]_vars

\* ------------------------------------------------ what the claims speak of
\* The snapshot as loaded, read through the schema of its own header.
WellFormed == meta \in GoodSchemas
NodeStride == Len(meta.node_fields)
EdgeStride == Len(meta.edge_fields)
InputNodeCount == Len(input.nodes) \div NodeStride
InputNodes == 0..(InputNodeCount - 1)

HasField(f) == \E k \in DOMAIN meta.node_fields : meta.node_fields[k] = f
FieldIndex(f) == CHOOSE k \in DOMAIN meta.node_fields : meta.node_fields[k] = f

\* The position in nodes (1-based) of field f of node j.
FieldPos(j, f) == j * NodeStride + FieldIndex(f)

InputOwned(j) == input.nodes[FieldPos(j, "edge_count")]

InputIsRetainer(j) ==
    /\ HasField("type")
    /\ HasField("name")
    /\ NodeTypeNames[input.nodes[FieldPos(j, "type")] + 1] = "object"
    /\ Strings[input.nodes[FieldPos(j, "name")] + 1] \in WeakRetainerNames

HasRetainer == \E j \in InputNodes : InputIsRetainer(j)

RECURSIVE OwnedBefore(_)
OwnedBefore(j) == IF j = 0 THEN 0 ELSE OwnedBefore(j - 1) + InputOwned(j - 1)

\* The edge run of node j: indexes (0-based) into the input's edges.
RunStart(j) == OwnedBefore(j) * EdgeStride
RunEnd(j) == OwnedBefore(j + 1) * EdgeStride
Run(j) == RunStart(j)..(RunEnd(j) - 1)

RECURSIVE SumOwnedNow(_)
SumOwnedNow(j) ==
    IF j = 0 THEN 0 ELSE SumOwnedNow(j - 1) + nodes[FieldPos(j - 1, "edge_count")]

Values(arr) == {arr[k] : k \in DOMAIN arr}
Increasing(arr) == \A a, b \in DOMAIN arr : a < b => arr[a] < arr[b]

Cleaned == pc = "cleaned" /\ pass = 1

\* ------------------------------------------------------------------ claims
\* C1 (as stated): after clean() on a well-formed snapshot, edge_count equals the
\* sum of the nodes' own edge counts, and both equal edges.length / edgeFieldsCount.
C1_CountInvariant ==
    (Cleaned /\ WellFormed) =>
        /\ Len(nodes) = Len(input.nodes)
        /\ \A j \in InputNodes : IsNum(nodes[FieldPos(j, "edge_count")])
        /\ edge_count = SumOwnedNow(InputNodeCount)
        /\ edge_count * EdgeStride = Len(edges)

\* C2 (as stated): after clean() every weak retainer has an edge count of 0, none
\* of the values of its run is left in edges, and the global edge count went down
\* by exactly the retainers' original edge counts.
RECURSIVE RetainerOwnedBefore(_)
RetainerOwnedBefore(j) ==
    IF j = 0 THEN 0
    ELSE RetainerOwnedBefore(j - 1)
         + (IF InputIsRetainer(j - 1) THEN InputOwned(j - 1) ELSE 0)

C2_FullRemoval ==
    (Cleaned /\ WellFormed) =>
        /\ \A j \in InputNodes : InputIsRetainer(j) =>
            /\ At(nodes, FieldPos(j, "edge_count") - 1) = 0
            /\ \A e \in Run(j) : input.edges[e + 1] \notin Values(edges)
        /\ edge_count = input.edge_count - RetainerOwnedBefore(InputNodeCount)

\* C3 (as stated): after clean() every node that is no weak retainer has its edge
\* count and every value of its run, in the input's order, and no field of a
\* node record other than a retainer's edge count has changed.
C3_NonRetainerPreserved ==
    (Cleaned /\ WellFormed) =>
        /\ Len(nodes) = Len(input.nodes)
        /\ \A j \in InputNodes : ~InputIsRetainer(j) =>
            \A e \in Run(j) : input.edges[e + 1] \in Values(edges)
        /\ Increasing(edges)
        /\ \A j \in InputNodes : \A k \in DOMAIN meta.node_fields :
            (~InputIsRetainer(j) \/ meta.node_fields[k] # "edge_count") =>
                At(nodes, j * NodeStride + k - 1) = input.nodes[j * NodeStride + k]

\* C4 (as stated): a second clean() leaves the snapshot as the first left it and
\* finds no weak retainer.
C4_Idempotent ==
    (pc = "cleaned" /\ pass = 2) => (Snap = first /\ ~isDirty)

\* C5: clean() reports dirty exactly when the input has an object node named in
\* the weak-retainer set; when it has none, the snapshot is never changed and
\* nothing is ever written to the output file.
C5_DirtyIffRetainer ==
    /\ (pass = 1 /\ pc \in {"cleaned", "serialize", "write", "done"}) =>
            (isDirty <=> HasRetainer)
    /\ ~HasRetainer => (Snap = input /\ out = <<>>)

C5_Witness ==
    /\ pc = "done"
    /\ WellFormed
    /\ ~isDirty
    /\ out = <<>>
    /\ input.edge_count > 0
    /\ \E j \in InputNodes :
        /\ Strings[input.nodes[FieldPos(j, "name")] + 1] \in WeakRetainerNames
        /\ NodeTypeNames[input.nodes[FieldPos(j, "type")] + 1] # "object"

\* The chunks written, end to end.
RECURSIVE Flatten(_)
Flatten(chunks) == IF chunks = <<>> THEN <<>> ELSE Head(chunks) \o Flatten(Tail(chunks))

KeyTokens(toks) == SelectSeq(toks, LAMBDA x : x.t = "key")
KeysOf(toks) == [k \in DOMAIN KeyTokens(toks) |-> KeyTokens(toks)[k].k]

\* One JSON object: a brace, then key : value groups with one comma between
\* two groups and none after the last, then the closing brace; every number is
\* an integer or null.
IsJsonObject(toks) ==
    /\ Len(toks) >= 2
    /\ (Len(toks) = 2 \/ (Len(toks) - 2) % 4 = 3)
    /\ toks[1].t = "{"
    /\ toks[Len(toks)].t = "}"
    /\ \A p \in 2..(Len(toks) - 1) :
        LET q == (p - 2) % 4
        IN /\ q = 0 => toks[p].t = "key"
           /\ q = 1 => toks[p].t = ":"
           /\ q = 2 => /\ toks[p].t \in {"value", "null"}
                       /\ \A n \in DOMAIN toks[p].numbers :
                            toks[p].numbers[n] \notin {UNDEF, NaN}
           /\ q = 3 => toks[p].t = ","

C9_CursorArithmetic ==
    (pass = 1 /\ WellFormed) =>
        /\ \A k \in DOMAIN walk :
            /\ walk[k].start = RunStart(k - 1)
            /\ walk[k].next = RunEnd(k - 1)
        /\ Cleaned => loc.nextEdgeIndex = Len(input.edges)
        /\ \A e \in tombs : \E j \in InputNodes : InputIsRetainer(j) /\ e \in Run(j)

\* C10 (as stated): the edge count of a node is read, and decremented, at the
\* node's record start plus the offset of "edge_count" in meta.node_fields.
C10_EdgeCountOffset ==
    (pass = 1 /\ WellFormed) =>
        \A k \in DOMAIN walk :
            walk[k].countIndex = walk[k].startOffset + FieldIndex("edge_count") - 1


\* The first n fields of the write order.
FirstFields(n) == {WriteOrder[k] : k \in 1..n}

ValueTokens(toks) == SelectSeq(toks, LAMBDA x : x.t \in {"value", "null"})

====
